---- MODULE Spec2Model ----
(***************************************************************************)
(* token-gate: an express middleware that gates endpoints on ownership of  *)
(* ledger tokens.  The model follows class TokenGate of src/src/index.ts   *)
(* (the revision with rules / allowToken / loadSpecFromFile, lines 129 to  *)
(* 364) and, for requireToken, the earlier revision in the same file.      *)
(*                                                                         *)
(* Strings that the code takes apart (endpoints, request paths) are        *)
(* sequences of one-character strings, so that replace / split / slice /   *)
(* join are computed as JavaScript computes them.                          *)
(***************************************************************************)
EXTENDS Integers, Sequences, FiniteSets, TLC

VARIABLES
  rules,          \* this.rules: endpoint -> rule
  tokenIdNames,   \* this.tokenIdNames: token id -> name
  tokenNameIds,   \* this.tokenNameIds: name -> token id
  schema,         \* this.schema
  table,          \* this.table
  columns,        \* this.columns
  urlFromReq,     \* this.urlFromReq: the extractor of the request path
  tzAddrFromReq,  \* this.tzAddrFromReq: the extractor of the caller address
  spec,           \* this.spec of the earlier revision: endpoint -> required token id
  ledger,         \* the external ledger relation: a set of rows
  call,           \* the decision in flight: use() / hasAccess() / the promise chain
  lastCall,       \* history: the last API call made and whether it threw
  torn,           \* history: a failed load has left the rule table partly applied
  resolved        \* the last evaluation of getRuleForEndpoint: its argument and result

vars == <<rules, tokenIdNames, tokenNameIds, schema, table, columns, urlFromReq,
          tzAddrFromReq, spec, ledger, call, lastCall, torn, resolved>>

(***************************************************************************)
(* Bounds                                                                  *)
(***************************************************************************)
MaxPathLen == 4
MaxKeyLen == 3
MaxRules == 2
MaxTokens == 2
MaxOneOf == 1
MaxAmount == 1
MaxLedgerRows == 2

(***************************************************************************)
(* Strings                                                                 *)
(***************************************************************************)
Chars == {"/", "a"}

StrUpTo(n) == UNION {[1..k -> Chars] : k \in 0..n}

Root == <<"/">>

\* x.replace(/\/+$/, ""): every trailing slash goes
RECURSIVE stripTrailingSlash(_)
stripTrailingSlash(x) ==
  IF x # <<>> /\ x[Len(x)] = "/"
    THEN stripTrailingSlash(SubSeq(x, 1, Len(x) - 1))
    ELSE x

\* x.split("/"): the segments between slashes; a string without a slash is one segment
RECURSIVE split(_)
split(x) ==
  IF \A i \in 1..Len(x) : x[i] # "/"
    THEN <<x>>
    ELSE LET i == CHOOSE k \in 1..Len(x) :
                    x[k] = "/" /\ \A j \in 1..(k - 1) : x[j] # "/"
         IN  <<SubSeq(x, 1, i - 1)>> \o split(SubSeq(x, i + 1, Len(x)))

\* segs.slice(0, -1): all but the last element
slice(segs) == SubSeq(segs, 1, Len(segs) - 1)

\* segs.join("/")
RECURSIVE join(_)
join(segs) ==
  IF segs = <<>> THEN <<>>
  ELSE IF Len(segs) = 1 THEN segs[1]
  ELSE segs[1] \o <<"/">> \o join(Tail(segs))

reduceEndpoint(x) == join(slice(split(stripTrailingSlash(x)))) \o <<"/">>

(***************************************************************************)
(* Rules                                                                   *)
(***************************************************************************)
UndefinedRule == [kind |-> "undefined"]
NoRulesRule == [kind |-> "noRules"]
TokensRule(ts) == [kind |-> "allowedTokens", allowedTokens |-> ts]

\* this.rules[e]
ruleAt(rs, e) == IF e \in DOMAIN rs THEN rs[e] ELSE UndefinedRule

\* the for loop of getRuleForEndpoint, from a stripped endpoint on
RECURSIVE ruleLoop(_, _)
ruleLoop(rs, e) ==
  IF e = Root THEN ruleAt(rs, Root)
  ELSE IF ruleAt(rs, e) # UndefinedRule THEN rs[e]
  ELSE ruleLoop(rs, reduceEndpoint(e))

\* A plausible slip: the loop starts from the endpoint as given, trailing slashes kept.
getRuleForEndpointUnstripped(rs, endpoint) == ruleLoop(rs, endpoint)

getRuleForEndpoint(rs, endpoint) == ruleLoop(rs, stripTrailingSlash(endpoint))

(***************************************************************************)
(* Rule resolution on its own: the table and the path are drawn from       *)
(* bounded sets, and Resolve applies getRuleForEndpoint.                   *)
(***************************************************************************)
Paths == StrUpTo(MaxPathLen)
Keys == StrUpTo(MaxKeyLen)

\* an injective number for a key, so that each key's rule is recognisable
RECURSIVE keyCode(_)
keyCode(k) ==
  IF k = <<>> THEN 1
  ELSE 2 * keyCode(SubSeq(k, 1, Len(k) - 1)) + (IF k[Len(k)] = "/" THEN 1 ELSE 0)

RECURSIVE KeySets(_)
KeySets(n) ==
  IF n = 0 THEN {{}}
  ELSE LET p == KeySets(n - 1) IN p \cup {s \cup {k} : s \in p, k \in Keys}

\* a table as one allowToken(k, keyCode(k)) per key of K builds it
TableOn(K) == [k \in K |-> TokensRule(<<keyCode(k)>>)]

\* a JavaScript value that is a string or undefined
Str(x) == [defined |-> TRUE, s |-> x]
Undefined == [defined |-> FALSE, s |-> <<>>]

NoCall ==
  [pc |-> "idle", tzAddr |-> Undefined, ruleKind |-> "undefined",
   tokenIds |-> <<>>, amountOwned |-> 0, promise |-> "pending", dbError |-> FALSE,
   response |-> "none", sawTorn |-> FALSE]
NoApi == [op |-> "constructor", threw |-> FALSE]
NotResolved == [pc |-> "none"]
DefaultColumns == [address |-> "idx_address", token |-> "idx_nat", amount |-> "nat"]

\* the constructor
Init ==
  /\ rules = <<>>
  /\ tokenIdNames = <<>>
  /\ tokenNameIds = <<>>
  /\ schema = "token_gate"
  /\ table = "storage.ledger_live"
  /\ columns = DefaultColumns
  /\ urlFromReq = "baseUrl"
  /\ tzAddrFromReq = "auth.userAddress"
  /\ spec = <<>>
  /\ ledger = {}
  /\ call = NoCall
  /\ lastCall = NoApi
  /\ torn = FALSE
  /\ resolved = NotResolved

InitResolve ==
  /\ rules \in {TableOn(K) : K \in KeySets(MaxRules)}
  /\ tokenIdNames = <<>>
  /\ tokenNameIds = <<>>
  /\ schema = "token_gate"
  /\ table = "storage.ledger_live"
  /\ columns = DefaultColumns
  /\ urlFromReq = "baseUrl"
  /\ tzAddrFromReq = "auth.userAddress"
  /\ spec = <<>>
  /\ ledger = {}
  /\ call = NoCall
  /\ lastCall = NoApi
  /\ torn = FALSE
  /\ resolved = NotResolved

Resolve(p) ==
  /\ resolved' = [pc |-> "resolved", endpoint |-> p, rule |-> getRuleForEndpoint(rules, p)]
  /\ UNCHANGED <<rules, tokenIdNames, tokenNameIds, schema, table, columns, urlFromReq,
                 tzAddrFromReq, spec, ledger, call, lastCall, torn>>

NextResolve == \E p \in Paths : Resolve(p)

SpecResolve == InitResolve /\ [][NextResolve]_vars

(***************************************************************************)
(* The preference order of keys, stated from the path alone.               *)
(***************************************************************************)
\* p without its trailing slashes
Stripped(p) ==
  LET k == CHOOSE n \in 0..Len(p) :
             /\ n = 0 \/ p[n] # "/"
             /\ \A j \in (n + 1)..Len(p) : p[j] = "/"
  IN  SubSeq(p, 1, k)

\* the directories above s, each with its trailing slash: the prefixes of s that
\* end where a run of slashes ends
Dirs(s) == {SubSeq(s, 1, k) : k \in {n \in 1..(Len(s) - 1) : s[n] = "/" /\ s[n + 1] # "/"}}

Longest(S) == CHOOSE x \in S : \A y \in S : Len(y) <= Len(x)

\* the rule at the first registered key of: first, then the directories above s
\* from the deepest up, then "/"
FirstRegistered(rs, first, s) ==
  LET dirs == (Dirs(s) \ {Root}) \cap DOMAIN rs
  IN  IF first \in DOMAIN rs THEN rs[first]
      ELSE IF dirs # {} THEN rs[Longest(dirs)]
      ELSE IF Root \in DOMAIN rs THEN rs[Root]
      ELSE UndefinedRule

\* C1 as stated: for every path p and rule table, getRuleForEndpoint(p) is the rule
\* at the deepest registered key among p with a trailing slash ("/a/b/c/"), the
\* directories above it ("/a/b/", "/a/") and "/", and nothing only when none of
\* these has a rule.  (Stated for absolute paths below the root, the claim's case.)
C1_TrailingSlashKey ==
  (/\ resolved.pc = "resolved"
   /\ Stripped(resolved.endpoint) # <<>>
   /\ resolved.endpoint[1] = "/") =>
    resolved.rule = FirstRegistered(rules, Stripped(resolved.endpoint) \o <<"/">>,
                                    Stripped(resolved.endpoint))

\* C1 amended: for every path p and rule table, getRuleForEndpoint(p) is the rule
\* at the first registered key among p without its trailing slashes ("/a/b/c"),
\* then the directories above it from the deepest up ("/a/b/", "/a/"), then "/";
\* it is nothing only when none of these keys has a rule.
C1_DeepestAncestor ==
  resolved.pc = "resolved" =>
    resolved.rule = FirstRegistered(rules, Stripped(resolved.endpoint),
                                    Stripped(resolved.endpoint))

\* a path two levels deep whose own key is free, with rules at its directory and
\* at "/": the directory's rule is returned
C1_Witness ==
  /\ resolved.pc = "resolved"
  /\ resolved.endpoint = <<"/", "a", "/", "a">>
  /\ DOMAIN rules = {<<"/", "a", "/">>, Root}
  /\ resolved.rule = rules[<<"/", "a", "/">>]
  /\ resolved.rule # rules[Root]

(***************************************************************************)
(* The configuration API                                                   *)
(***************************************************************************)
Ids == {1, 2}
Names == {"gold", "silver"}
Endpoints == {Root, <<"/", "a", "/">>}

\* a token reference as the API takes it: typeof t is "number" or "string"
Num(i) == [type |-> "number", id |-> i, name |-> ""]
Name(n) == [type |-> "string", id |-> 0, name |-> n]
Refs == {Num(i) : i \in Ids} \cup {Name(n) : n \in Names}

\* obj[k] = v
put(obj, k, v) == [x \in DOMAIN obj \cup {k} |-> IF x = k THEN v ELSE obj[x]]

\* the fields of the gate that configuration calls write
Cfg ==
  [rules |-> rules, tokenIdNames |-> tokenIdNames, tokenNameIds |-> tokenNameIds,
   schema |-> schema, table |-> table, columns |-> columns]

SetCfg(c) ==
  /\ rules' = c.rules
  /\ tokenIdNames' = c.tokenIdNames
  /\ tokenNameIds' = c.tokenNameIds
  /\ schema' = c.schema
  /\ table' = c.table
  /\ columns' = c.columns

nameTokenId(c, id, n) ==
  [c EXCEPT !.tokenIdNames = put(c.tokenIdNames, id, n),
            !.tokenNameIds = put(c.tokenNameIds, n, id)]

setSchema(c, s) == [c EXCEPT !.schema = s]
setTable(c, t) == [c EXCEPT !.table = t]
setColumns(c, cols) == [c EXCEPT !.columns = cols]

\* this.rules[e]?.allowedTokens ?? []
allowedSoFar(c, e) ==
  IF ruleAt(c.rules, e).kind = "allowedTokens" THEN c.rules[e].allowedTokens ELSE <<>>

\* A plausible slip: an unknown name is not checked; the lookup's undefined (0 here)
\* goes into the rule.
allowTokenUnchecked(c, e, t) ==
  LET id == IF t.type = "string"
              THEN (IF t.name \in DOMAIN c.tokenNameIds THEN c.tokenNameIds[t.name] ELSE 0)
              ELSE t.id
  IN  [threw |-> FALSE,
       c |-> [c EXCEPT !.rules = put(c.rules, e, TokensRule(allowedSoFar(c, e) \o <<id>>))]]

\* allowToken: the gate after the call, and whether the call threw
allowToken(c, e, t) ==
  IF t.type = "string" /\ t.name \notin DOMAIN c.tokenNameIds
    THEN [threw |-> TRUE, c |-> c]
    ELSE LET id == IF t.type = "string" THEN c.tokenNameIds[t.name] ELSE t.id
         IN  [threw |-> FALSE,
              c |-> [c EXCEPT !.rules =
                       put(c.rules, e, TokensRule(allowedSoFar(c, e) \o <<id>>))]]

\* requireToken of the earlier revision: this.spec[endpoint] = {requireToken: id}
requireToken(sp, names, e, t) ==
  IF t.type = "string" /\ t.name \notin DOMAIN names
    THEN [threw |-> TRUE, spec |-> sp]
    ELSE [threw |-> FALSE,
          spec |-> put(sp, e, IF t.type = "string" THEN names[t.name] ELSE t.id)]

\* this.tokenIdNames[t] ?? t
render(idNames, t) == IF t \in DOMAIN idNames THEN Name(idNames[t]) ELSE Num(t)

\* getSpec: noRules and allowedTokens are undefined (FALSE and <<>> here) when the
\* rule has no such field
getSpec(c) ==
  [e \in DOMAIN c.rules |->
     [noRules |-> c.rules[e].kind = "noRules",
      allowedTokens |->
        IF c.rules[e].kind = "allowedTokens"
          THEN [i \in 1..Len(c.rules[e].allowedTokens) |->
                  render(c.tokenIdNames, c.rules[e].allowedTokens[i])]
          ELSE <<>>]]

(***************************************************************************)
(* loadSpecFromFile.  A parsed document: each optional entry is <<>> when  *)
(* the document lacks it (null / undefined) and <<v>> when it holds v.     *)
(* tokenNames maps ids to names; Object.keys lists integer keys in         *)
(* ascending order.  rules is the document's map in its own key order.     *)
(***************************************************************************)
None == <<>>
Some(v) == <<v>>

isBottom(v) == v = None

\* maybe(x, f): fx is f(x), taken only when x is neither null nor undefined; c is
\* the gate as it stays otherwise
maybe(x, fx, c) == IF isBottom(x) THEN c ELSE fx

\* a ?? b
orElse(a, b) == IF isBottom(a) THEN b ELSE a[1]

\* for (const id of Object.keys(tNames)) this.nameTokenId(Number(id), tNames[id])
RECURSIVE loadTokenNames(_, _, _)
loadTokenNames(c, tNames, todo) ==
  IF todo = {} THEN c
  ELSE LET id == CHOOSE i \in todo : \A j \in todo : i <= j
       IN  loadTokenNames(nameTokenId(c, id, tNames[id]), tNames, todo \ {id})

\* for (const token of r[endpoint].one_of ?? []) this.allowToken(endpoint, token):
\* the first throw ends the loop, with what the earlier calls wrote
RECURSIVE loadOneOf(_, _, _)
loadOneOf(c, e, tokens) ==
  IF tokens = <<>> THEN [threw |-> FALSE, c |-> c]
  ELSE LET r == allowToken(c, e, Head(tokens))
       IN  IF r.threw THEN r ELSE loadOneOf(r.c, e, Tail(tokens))

\* for (const endpoint of Object.keys(r)) ...
RECURSIVE loadRules(_, _)
loadRules(c, r) ==
  IF r = <<>> THEN [threw |-> FALSE, c |-> c]
  ELSE LET entry == Head(r)
       IN  IF entry.rule.kind = "no_rules"
             THEN loadRules([c EXCEPT !.rules = put(c.rules, entry.endpoint, NoRulesRule)],
                            Tail(r))
             ELSE LET q == loadOneOf(c, entry.endpoint, entry.rule.one_of)
                  IN  IF q.threw THEN q ELSE loadRules(q.c, Tail(r))

\* loadSpecFromFile: the gate after the call, and whether the call threw
loadSpecFromFile(c, parsed, overwrite) ==
  IF parsed.isNull THEN [threw |-> FALSE, c |-> c]
  ELSE
    LET c1 == IF overwrite
                THEN [c EXCEPT !.rules = <<>>, !.tokenIdNames = <<>>, !.tokenNameIds = <<>>]
                ELSE c
        c2 == maybe(parsed.schema, setSchema(c1, parsed.schema[1]), c1)
        c3 == maybe(parsed.table, setTable(c2, parsed.table[1]), c2)
        cols == parsed.columns[1]
        c4 == maybe(parsed.columns,
                    setColumns(c3, [address |-> orElse(cols.address, c3.columns.address),
                                    token |-> orElse(cols.token, c3.columns.token),
                                    amount |-> orElse(cols.amount, c3.columns.amount)]),
                    c3)
        tNames == parsed.tokenNames[1]
        c5 == maybe(parsed.tokenNames, loadTokenNames(c4, tNames, DOMAIN tNames), c4)
    IN  maybe(parsed.rules, loadRules(c5, parsed.rules[1]), [threw |-> FALSE, c |-> c5])

\* the documents loaded
NoSettings == [schema |-> None, table |-> None, columns |-> None]

DocSettings ==
  {NoSettings,
   [schema |-> Some("custom_schema"), table |-> Some("custom_table"),
    columns |-> Some([address |-> Some("holder"), token |-> None, amount |-> None])]}

\* the documents name their tokens "gold"; "silver" is a name only rules refer to
DocNames == {"gold"}

DocTokenNames ==
  {None} \cup {Some(f) : f \in UNION {[I -> DocNames] : I \in (SUBSET Ids) \ {{}}}}

DocRuleValues ==
  {[kind |-> "no_rules", one_of |-> <<>>]} \cup
  {[kind |-> "one_of", one_of |-> ts] : ts \in UNION {[1..k -> Refs] : k \in 0..MaxOneOf}}

\* the rules maps, of one endpoint
DocRules ==
  {None, Some(<<>>)} \cup
  {Some(<<[endpoint |-> e, rule |-> v]>>) : e \in Endpoints, v \in DocRuleValues}

NullDoc ==
  [isNull |-> TRUE, schema |-> None, table |-> None, columns |-> None,
   tokenNames |-> None, rules |-> None]

DocsWith(settings) ==
  {NullDoc} \cup
  {[isNull |-> FALSE, schema |-> st.schema, table |-> st.table, columns |-> st.columns,
    tokenNames |-> tn, rules |-> r] : st \in settings, tn \in DocTokenNames, r \in DocRules}

Docs == DocsWith(DocSettings)

TokensBounded(rs) ==
  \A e \in DOMAIN rs : rs[e].kind = "allowedTokens" => Len(rs[e].allowedTokens) <= MaxTokens

Api(op, threw) == [op |-> op, threw |-> threw]

NameTokenId(id, n) ==
  /\ SetCfg(nameTokenId(Cfg, id, n))
  /\ lastCall' = Api("nameTokenId", FALSE)
  /\ UNCHANGED <<urlFromReq, tzAddrFromReq, spec, ledger, call, torn, resolved>>

AllowToken(e, t) ==
  LET r == allowToken(Cfg, e, t)
  IN  /\ TokensBounded(r.c.rules)
      /\ SetCfg(r.c)
      /\ lastCall' = Api("allowToken", r.threw)
      /\ UNCHANGED <<urlFromReq, tzAddrFromReq, spec, ledger, call, torn, resolved>>

RequireToken(e, t) ==
  LET r == requireToken(spec, tokenNameIds, e, t)
  IN  /\ spec' = r.spec
      /\ lastCall' = Api("requireToken", r.threw)
      /\ UNCHANGED <<rules, tokenIdNames, tokenNameIds, schema, table, columns,
                     urlFromReq, tzAddrFromReq, ledger, call, torn, resolved>>

GetSpec ==
  /\ lastCall' = Api("getSpec", FALSE)
  /\ UNCHANGED <<rules, tokenIdNames, tokenNameIds, schema, table, columns,
                 urlFromReq, tzAddrFromReq, spec, ledger, call, torn, resolved>>

LoadSpecFromFile(parsed, overwrite) ==
  LET r == loadSpecFromFile(Cfg, parsed, overwrite)
      changed == r.c.rules # rules
  IN  /\ TokensBounded(r.c.rules)
      /\ SetCfg(r.c)
      /\ lastCall' = Api("loadSpecFromFile", r.threw)
      /\ torn' = IF r.threw THEN (torn \/ changed)
                 ELSE IF overwrite /\ ~parsed.isNull THEN FALSE
                 ELSE torn
      /\ UNCHANGED <<urlFromReq, tzAddrFromReq, spec, ledger, call, resolved>>

NextLoad == \E d \in Docs, overwrite \in BOOLEAN : LoadSpecFromFile(d, overwrite)

SpecLoad == Init /\ [][NextLoad]_vars

\* C4: a load that fails with a configuration error applies nothing: the rules, the
\* alias maps and the schema, table and column settings are what they were before
\* the load started.
C4_FailedLoadAppliesNothing ==
  [][\A d \in Docs, overwrite \in BOOLEAN :
       (LoadSpecFromFile(d, overwrite) /\ lastCall'.threw) =>
         /\ rules' = rules
         /\ tokenIdNames' = tokenIdNames
         /\ tokenNameIds' = tokenNameIds
         /\ schema' = schema
         /\ table' = table
         /\ columns' = columns]_vars

Next ==
  \/ \E id \in Ids, n \in Names : NameTokenId(id, n)
  \/ \E e \in Endpoints, t \in Refs : AllowToken(e, t)
  \/ \E e \in Endpoints, t \in Refs : RequireToken(e, t)
  \/ GetSpec

Spec == Init /\ [][Next]_vars

(***************************************************************************)
(* Decisions: use(), hasAccess(), ownsOneOf() and the promise chain        *)
(***************************************************************************)
Addrs == {<<"X">>, <<"Y">>}

\* the functions the setters install, named by what they read from the request
Funcs == {"originalUrl", "headers.address"}

GatePaths == {<<>>, <<"/", "a">>, <<"/", "a", "/", "a">>}

Requests ==
  [baseUrl : GatePaths,
   originalUrl : {<<"/", "a", "/", "a">>},
   userAddress : {Undefined} \cup {Str(a) : a \in Addrs},
   headerAddress : {Undefined, Str(<<"X">>)}]

\* f(req)
apply(f, req) ==
  CASE f = "baseUrl" -> Str(req.baseUrl)
    [] f = "originalUrl" -> Str(req.originalUrl)
    [] f = "auth.userAddress" -> req.userAddress
    [] f = "headers.address" -> req.headerAddress

\* hasAccess up to its first await: it resolves at once, or awaits ownsOneOf
hasAccess(rs, endpoint) ==
  LET rule == getRuleForEndpoint(rs, endpoint)
  IN  IF rule.kind = "undefined" \/ rule.kind = "noRules"
        THEN [awaits |-> FALSE, ruleKind |-> rule.kind, tokenIds |-> <<>>]
      ELSE IF rule.kind = "allowedTokens"
        THEN [awaits |-> TRUE, ruleKind |-> rule.kind, tokenIds |-> rule.allowedTokens]
      ELSE [awaits |-> FALSE, ruleKind |-> rule.kind, tokenIds |-> <<>>]

RECURSIVE sumAmounts(_)
sumAmounts(rows) ==
  IF rows = {} THEN 0
  ELSE LET r == CHOOSE x \in rows : TRUE IN r.amount + sumAmounts(rows \ {r})

SqlNull == [null |-> TRUE, n |-> 0]
SqlNum(n) == [null |-> FALSE, n |-> n]

\* SELECT SUM(amount) AS amount_owned ... WHERE address = $1 AND token = ANY($2):
\* an undefined parameter is sent as NULL, which equals no address; SUM over no
\* row is NULL
selectSum(led, tzAddr, tokenIds) ==
  LET rows == {r \in led : /\ tzAddr.defined
                           /\ r.address = tzAddr.s
                           /\ \E i \in 1..Len(tokenIds) : r.token = tokenIds[i]}
  IN  IF rows = {} THEN SqlNull ELSE SqlNum(sumAmounts(rows))

\* rows[0]?.amount_owned ?? 0
amountOwnedOf(led, tzAddr, tokenIds) ==
  LET sum == selectSum(led, tzAddr, tokenIds) IN IF sum.null THEN 0 ELSE sum.n

\* A plausible slip: >= for >.
ownsOneOfNonNegative(led, tzAddr, tokenIds) == amountOwnedOf(led, tzAddr, tokenIds) >= 0

\* ownsOneOf once the query has answered: amountOwned > 0
ownsOneOf(led, tzAddr, tokenIds) == amountOwnedOf(led, tzAddr, tokenIds) > 0

\* .then((access) => ...): what the middleware does with the decision
onFulfilled(access) == IF ~access THEN "403" ELSE "next"

\* A plausible slip: a failed decision answered as a denial.
onRejectedForbidden(err) == "403"

\* .catch((err) => ...)
onRejected(err) == "500"

Use(req) ==
  /\ call.pc \in {"idle", "responded"}
  /\ LET url == apply(urlFromReq, req)
         tzAddr == apply(tzAddrFromReq, req)
     IN  IF ~url.defined
           \* stripTrailingSlash(undefined) throws inside the async function
           THEN call' = [NoCall EXCEPT !.pc = "settled", !.tzAddr = tzAddr,
                                       !.promise = "rejected", !.sawTorn = torn]
           ELSE LET h == hasAccess(rules, url.s)
                IN  call' = [pc |-> IF h.awaits THEN "querying" ELSE "settled",
                             tzAddr |-> tzAddr,
                             ruleKind |-> h.ruleKind,
                             tokenIds |-> h.tokenIds,
                             amountOwned |-> 0,
                             promise |-> IF h.awaits THEN "pending" ELSE "true",
                             dbError |-> FALSE,
                             response |-> "none",
                             sawTorn |-> torn]
  /\ UNCHANGED <<rules, tokenIdNames, tokenNameIds, schema, table, columns, urlFromReq,
                 tzAddrFromReq, spec, ledger, lastCall, torn, resolved>>

\* the query executor answers
QueryReply ==
  /\ call.pc = "querying"
  /\ call' = [call EXCEPT !.pc = "settled",
                          !.amountOwned = amountOwnedOf(ledger, call.tzAddr, call.tokenIds),
                          !.promise = IF ownsOneOf(ledger, call.tzAddr, call.tokenIds)
                                        THEN "true" ELSE "false"]
  /\ UNCHANGED <<rules, tokenIdNames, tokenNameIds, schema, table, columns, urlFromReq,
                 tzAddrFromReq, spec, ledger, lastCall, torn, resolved>>

\* the query executor fails: the await throws and hasAccess rejects
QueryFail ==
  /\ call.pc = "querying"
  /\ call' = [call EXCEPT !.pc = "settled", !.promise = "rejected", !.dbError = TRUE]
  /\ UNCHANGED <<rules, tokenIdNames, tokenNameIds, schema, table, columns, urlFromReq,
                 tzAddrFromReq, spec, ledger, lastCall, torn, resolved>>

Then ==
  /\ call.pc = "settled"
  /\ call.promise \in {"true", "false"}
  /\ call' = [call EXCEPT !.pc = "responded", !.response = onFulfilled(call.promise = "true")]
  /\ UNCHANGED <<rules, tokenIdNames, tokenNameIds, schema, table, columns, urlFromReq,
                 tzAddrFromReq, spec, ledger, lastCall, torn, resolved>>

Catch ==
  /\ call.pc = "settled"
  /\ call.promise = "rejected"
  /\ call' = [call EXCEPT !.pc = "responded", !.response = onRejected(call.promise)]
  /\ UNCHANGED <<rules, tokenIdNames, tokenNameIds, schema, table, columns, urlFromReq,
                 tzAddrFromReq, spec, ledger, lastCall, torn, resolved>>

SetUrlFromReqFunc(f) ==
  /\ tzAddrFromReq' = f
  /\ lastCall' = Api("setUrlFromReqFunc", FALSE)
  /\ UNCHANGED <<rules, tokenIdNames, tokenNameIds, schema, table, columns, urlFromReq,
                 spec, ledger, call, torn, resolved>>

SetTzAddrFromReqFunc(f) ==
  /\ tzAddrFromReq' = f
  /\ lastCall' = Api("setTzAddrFromReqFunc", FALSE)
  /\ UNCHANGED <<rules, tokenIdNames, tokenNameIds, schema, table, columns, urlFromReq,
                 spec, ledger, call, torn, resolved>>

\* the ledger is written by others
LedgerRows == [address : Addrs, token : Ids, amount : 0..MaxAmount]

LedgerInsert(row) ==
  /\ row \notin ledger
  /\ Cardinality(ledger) < MaxLedgerRows
  /\ ledger' = ledger \cup {row}
  /\ UNCHANGED <<rules, tokenIdNames, tokenNameIds, schema, table, columns, urlFromReq,
                 tzAddrFromReq, spec, call, lastCall, torn, resolved>>

LedgerDelete(row) ==
  /\ row \in ledger
  /\ ledger' = ledger \ {row}
  /\ UNCHANGED <<rules, tokenIdNames, tokenNameIds, schema, table, columns, urlFromReq,
                 tzAddrFromReq, spec, call, lastCall, torn, resolved>>

\* the tables a gate is configured with before it serves
GateRuleValues == {NoRulesRule, TokensRule(<<1>>), TokensRule(<<1, 2>>)}
GateTables == UNION {[E -> GateRuleValues] : E \in SUBSET Endpoints}

InitGate ==
  /\ rules \in GateTables
  /\ tokenIdNames = <<>>
  /\ tokenNameIds = <<>>
  /\ schema = "token_gate"
  /\ table = "storage.ledger_live"
  /\ columns = DefaultColumns
  /\ urlFromReq = "baseUrl"
  /\ tzAddrFromReq = "auth.userAddress"
  /\ spec = <<>>
  /\ ledger = {}
  /\ call = NoCall
  /\ lastCall = NoApi
  /\ torn = FALSE
  /\ resolved = NotResolved

NextGate ==
  \/ \E req \in Requests : Use(req)
  \/ QueryReply
  \/ QueryFail
  \/ Then
  \/ Catch
  \/ \E f \in Funcs : SetUrlFromReqFunc(f)
  \/ \E f \in Funcs : SetTzAddrFromReqFunc(f)
  \/ \E row \in LedgerRows : LedgerInsert(row)
  \/ \E row \in LedgerRows : LedgerDelete(row)

SpecGate == InitGate /\ [][NextGate]_vars

\* reloads while requests are served
ReloadDocs == DocsWith({NoSettings})

NextReload ==
  \/ \E d \in ReloadDocs : LoadSpecFromFile(d, TRUE)
  \/ \E req \in Requests : Use(req)
  \/ QueryReply
  \/ QueryFail
  \/ Then
  \/ Catch

SpecReload == Init /\ [][NextReload]_vars

\* C3: allowToken or requireToken with a name that the alias registry does not hold
\* throws at once and leaves the rule set (rules, and spec of the earlier
\* revision) as it was, whatever the rules and aliases were before.
C3_UnknownNameThrows ==
  [][\A e \in Endpoints, n \in Names :
       (n \notin DOMAIN tokenNameIds /\ (AllowToken(e, Name(n)) \/ RequireToken(e, Name(n))))
         => (lastCall'.threw /\ rules' = rules /\ spec' = spec)]_vars

\* allowToken has just thrown on a gate that already holds a rule and an alias
C3_Witness ==
  /\ lastCall = Api("allowToken", TRUE)
  /\ DOMAIN rules # {}
  /\ DOMAIN tokenNameIds # {}
  /\ DOMAIN tokenNameIds # Names

\* C7: no two registered aliases cover the same token id and every name is bound to
\* exactly one id: the two maps are each other's inverse, an overlapping
\* registration having been refused.
C7_AliasesDisjoint ==
  /\ \A n1, n2 \in DOMAIN tokenNameIds :
       tokenNameIds[n1] = tokenNameIds[n2] => n1 = n2
  /\ \A id \in DOMAIN tokenIdNames :
       /\ tokenIdNames[id] \in DOMAIN tokenNameIds
       /\ tokenNameIds[tokenIdNames[id]] = id

\* C9: getSpec renders each token id of each rule as its alias name when the id has
\* one and as the number otherwise, and a rendered name resolves, through the
\* name-to-id map that allowToken uses, to the id the rule holds.
C9_RenderRoundTrip ==
  \A e \in DOMAIN rules :
    rules[e].kind = "allowedTokens" =>
      \A i \in 1..Len(rules[e].allowedTokens) :
        LET t == rules[e].allowedTokens[i]
            r == getSpec(Cfg)[e].allowedTokens[i]
        IN  /\ r = (IF t \in DOMAIN tokenIdNames THEN Name(tokenIdNames[t]) ELSE Num(t))
            /\ r.type = "string" =>
                 (r.name \in DOMAIN tokenNameIds /\ tokenNameIds[r.name] = t)

\* the ledger amounts of address a over the token ids of T, summed
Owned(led, a, T) ==
  sumAmounts({r \in led : r.address = a /\ \E i \in 1..Len(T) : r.token = T[i]})

\* C2: under a token-requiring rule with token set T and a caller address a that is
\* present, the decision the query's answer settles is ALLOW exactly when the
\* ledger amounts of a over the ids of T sum to more than zero; with no matching
\* row it is DENY, not an error.
C2_AllowIffPositiveSum ==
  [][(/\ call.pc = "querying"
      /\ call.ruleKind = "allowedTokens"
      /\ call.tzAddr.defined
      /\ QueryReply)
       => /\ call'.promise \in {"true", "false"}
          /\ call'.promise = "true" <=> Owned(ledger, call.tzAddr.s, call.tokenIds) > 0]_vars

\* allowed on an amount that only several rows of the caller sum to
C2_Witness ==
  /\ call.pc = "settled"
  /\ call.promise = "true"
  /\ call.tzAddr.defined
  /\ call.tokenIds = <<1, 2>>
  /\ call.amountOwned > MaxAmount

\* C5: when the query executor fails during a decision, hasAccess resolves neither
\* to true nor to false, and the middleware answers 500: it neither calls next()
\* nor sends 403.
C5_ExecutorFailureIs500 ==
  call.dbError =>
    /\ call.promise = "rejected"
    /\ call.response \in {"none", "500"}
    /\ call.pc = "responded" => call.response = "500"

\* the executor failed and the middleware has answered
C5_Witness ==
  /\ call.dbError
  /\ call.pc = "responded"
  /\ call.response = "500"

\* C6: under a token-requiring rule, an absent caller address is denied: the
\* decision is never ALLOW and never an error, whatever the ledger holds.
C6_AbsentAddressDenied ==
  (/\ call.pc \in {"settled", "responded"}
   /\ call.ruleKind = "allowedTokens"
   /\ ~call.tzAddr.defined) => call.promise = "false"

C10_SettersIndependent ==
  [][\A f \in Funcs :
       /\ SetUrlFromReqFunc(f) => (urlFromReq' = f /\ tzAddrFromReq' = tzAddrFromReq)
       /\ SetTzAddrFromReqFunc(f) => (tzAddrFromReq' = f /\ urlFromReq' = urlFromReq)]_vars

====
